---------------------------- MODULE Spec2Model ----------------------------
(***************************************************************************)
(* Transition-probability engine of pecanpy's dense random-walk graph      *)
(* (src/src/pecanpy/rw/dense_rw.py): get_average_weights, has_nbrs,        *)
(* get_normalized_probs (node2vec) and get_extended_normalized_probs       *)
(* (node2vec+).                                                            *)
(*                                                                         *)
(* Floating-point values are modelled as exact rationals extended with the *)
(* IEEE special values the code can produce by dividing by zero (NaN,      *)
(* +Inf, -Inf).  Rounding is not modelled.                                 *)
(***************************************************************************)
EXTENDS Integers, Sequences, FiniteSets

(***************************************************************************)
(* Bounds of the model.                                                    *)
(***************************************************************************)
N == 3            \* number of nodes, indexed 0..N-1
MaxWeight == 2    \* the largest edge weight

Nodes == 0 .. (N - 1)

(***************************************************************************)
(* Numbers: [n, d] with d >= 0.  d > 0: the rational n/d in lowest terms.  *)
(* d = 0: n = 0 is NaN, n = 1 is +Inf, n = -1 is -Inf.                     *)
(***************************************************************************)
Abs(x) == IF x < 0 THEN -x ELSE x

Sgn(x) == IF x < 0 THEN -1 ELSE IF x > 0 THEN 1 ELSE 0

RECURSIVE Gcd(_, _)
Gcd(a, b) == IF b = 0 THEN a ELSE Gcd(b, a % b)

Norm(n, d) ==
    IF d = 0 THEN [n |-> Sgn(n), d |-> 0]
    ELSE LET g == Gcd(Abs(n), Abs(d))
         IN  [n |-> (Sgn(d) * n) \div g, d |-> Abs(d) \div g]

Rat(n, d) == Norm(n, d)
Num(k) == [n |-> k, d |-> 1]
Zero == Num(0)
One == Num(1)
NaN == [n |-> 0, d |-> 0]
Inf == [n |-> 1, d |-> 0]

IsNaN(a) == a.n = 0 /\ a.d = 0
IsFinite(a) == a.d > 0

FNeg(a) == [n |-> -a.n, d |-> a.d]

FAdd(a, b) ==
    IF IsNaN(a) \/ IsNaN(b) THEN NaN
    ELSE IF a.d = 0 /\ b.d = 0 THEN (IF a.n = b.n THEN a ELSE NaN)
    ELSE IF a.d = 0 THEN a
    ELSE IF b.d = 0 THEN b
    ELSE Norm(a.n * b.d + b.n * a.d, a.d * b.d)

FSub(a, b) == FAdd(a, FNeg(b))

FMul(a, b) ==
    IF IsNaN(a) \/ IsNaN(b) THEN NaN
    ELSE Norm(a.n * b.n, a.d * b.d)

\* IEEE division: x/0 is +-Inf for x # 0 and NaN for x = 0 (no exception is
\* raised by numpy array division, nor by numba's compiled array division).
FDiv(a, b) ==
    IF IsNaN(a) \/ IsNaN(b) THEN NaN
    ELSE Norm(a.n * b.d * (IF b.n < 0 THEN -1 ELSE 1), a.d * Abs(b.n))

\* IEEE comparison: any comparison with NaN is false.
FLt(a, b) ==
    IF IsNaN(a) \/ IsNaN(b) THEN FALSE
    ELSE IF a.d = 0 /\ b.d = 0 THEN a.n < b.n
    ELSE a.n * b.d < b.n * a.d

FLe(a, b) == FLt(a, b) \/ (~IsNaN(a) /\ a = b)

\* np.minimum: propagates NaN.
FMin(a, b) ==
    IF IsNaN(a) \/ IsNaN(b) THEN NaN ELSE IF FLt(b, a) THEN b ELSE a

RECURSIVE SeqSum(_)
SeqSum(s) == IF s = <<>> THEN Zero ELSE FAdd(SeqSum(SubSeq(s, 1, Len(s) - 1)), s[Len(s)])

(***************************************************************************)
(* Input values.                                                           *)
(***************************************************************************)
None == -1                              \* prev_idx is None
Half == Rat(1, 2)
Two == Num(2)
PQ == {Half, One, Two}                  \* values of p and of q

VARIABLES data, nonzero, average_weight_ary, call

vars == <<data, nonzero, average_weight_ary, call>>

(***************************************************************************)
(* numpy helpers.                                                          *)
(***************************************************************************)
\* row.sum() over all N columns
RECURSIVE RowSumUpTo(_, _)
RowSumUpTo(row, j) == IF j < 0 THEN Zero ELSE FAdd(RowSumUpTo(row, j - 1), row[j])

RowSum(row) == RowSumUpTo(row, N - 1)

\* mask.sum(): number of true cells
CountTrue(mask) == Cardinality({j \in Nodes : mask[j]})

\* row[mask]: boolean-mask indexing keeps the cells at the true positions, in
\* ascending column order.
RECURSIVE MaskSelectFrom(_, _, _)
MaskSelectFrom(row, mask, j) ==
    IF j >= N THEN <<>>
    ELSE (IF mask[j] THEN <<row[j]>> ELSE <<>>) \o MaskSelectFrom(row, mask, j + 1)

\* MaskSelect with the columns taken in descending order
RECURSIVE MaskSelectDownFrom(_, _, _)
MaskSelectDownFrom(row, mask, j) ==
    IF j < 0 THEN <<>>
    ELSE (IF mask[j] THEN <<row[j]>> ELSE <<>>) \o MaskSelectDownFrom(row, mask, j - 1)

MaskSelectReversed(row, mask) == MaskSelectDownFrom(row, mask, N - 1)

MaskSelect(row, mask) == MaskSelectFrom(row, mask, 0)

\* Normalize dividing by the number of entries instead of their sum
NormalizeByCount(v) == [k \in 1 .. Len(v) |-> FDiv(v[k], Num(Len(v)))]

\* v / v.sum()
Normalize(v) == LET s == SeqSum(v) IN [k \in 1 .. Len(v) |-> FDiv(v[k], s)]

\* RowStoredAfter without the copy: the working row is the stored row
RowStoredAfterNoCopy(orig, work) == work

\* data[cur_idx].copy(): the in-place updates of a call land on the copy, so the
\* row stored in the graph after the call is the row as it was before the call.
RowStoredAfter(orig, work) == orig

(***************************************************************************)
(* DenseRWGraph.get_average_weights                                        *)
(***************************************************************************)
get_average_weights(d, nz) ==
    [i \in Nodes |-> FDiv(RowSum(d[i]), Num(CountTrue(nz[i])))]

(***************************************************************************)
(* has_nbrs (closure returned by DenseRWGraph.get_has_nbrs)                *)
(***************************************************************************)
RECURSIVE has_nbrs_from(_, _, _)
has_nbrs_from(nz, idx, j) ==
    IF j >= N THEN FALSE
    ELSE IF nz[idx][j] THEN TRUE
    ELSE has_nbrs_from(nz, idx, j + 1)

has_nbrs(nz, idx) == has_nbrs_from(nz, idx, 0)

(***************************************************************************)
(* DenseRWGraph.get_normalized_probs (node2vec)                            *)
(***************************************************************************)
\* non_com_nbr without the exclusion of the previous state
non_com_nbr_keep_prev(nz, cur_idx, prev_idx) ==
    [j \in Nodes |-> nz[cur_idx][j] /\ ~nz[prev_idx][j]]

\* nbrs of cur but not prev, previous state excluded
non_com_nbr(nz, cur_idx, prev_idx) ==
    [j \in Nodes |-> j # prev_idx /\ nz[cur_idx][j] /\ ~nz[prev_idx][j]]

\* classic_unnormalized with the out bias multiplying by q
classic_unnormalized_times_q(d, nz, p, q, cur_idx, prev_idx) ==
    IF prev_idx = None THEN d[cur_idx]
    ELSE LET out == [j \in Nodes |->
                        IF j # prev_idx /\ nz[cur_idx][j] /\ ~nz[prev_idx][j]
                        THEN FMul(d[cur_idx][j], q) ELSE d[cur_idx][j]]
         IN  [out EXCEPT ![prev_idx] = FDiv(out[prev_idx], p)]

\* the working copy of data[cur_idx] after the biases are applied
classic_unnormalized(d, nz, p, q, cur_idx, prev_idx) ==
    IF prev_idx = None THEN d[cur_idx]
    ELSE LET nc == non_com_nbr(nz, cur_idx, prev_idx)
             out == [j \in Nodes |-> IF nc[j] THEN FDiv(d[cur_idx][j], q)
                                              ELSE d[cur_idx][j]]
         IN  [out EXCEPT ![prev_idx] = FDiv(out[prev_idx], p)]

get_normalized_probs(d, nz, p, q, cur_idx, prev_idx, avg) ==
    Normalize(MaskSelect(classic_unnormalized(d, nz, p, q, cur_idx, prev_idx),
                         nz[cur_idx]))

(***************************************************************************)
(* DenseRWGraph.get_extended_normalized_probs (node2vec+)                  *)
(***************************************************************************)
\* inout_ind with the average weight of the previous state as the threshold
inout_ind_prev_threshold(d, nz, cur_idx, prev_idx, avg) ==
    [j \in Nodes |-> j # prev_idx /\ nz[cur_idx][j]
                        /\ FLt(d[prev_idx][j], avg[prev_idx])]

inout_ind(d, nz, cur_idx, prev_idx, avg) ==
    [j \in Nodes |-> j # prev_idx /\ nz[cur_idx][j] /\ FLt(d[prev_idx][j], avg[j])]

t_of(d, prev_idx, avg, j) == FDiv(d[prev_idx][j], avg[j])

\* alpha_of with the product taken before the difference: 1/q + (1 - 1/q * t)
alpha_of_misgrouped(q, t) == FAdd(FDiv(One, q), FSub(One, FMul(FDiv(One, q), t)))

alpha_of(q, t) == FAdd(FDiv(One, q), FMul(FSub(One, FDiv(One, q)), t))

\* alpha after the suppression of noisy edges
alpha_final(d, q, cur_idx, prev_idx, avg, j) ==
    IF FLt(d[cur_idx][j], avg[cur_idx]) THEN FMin(One, FDiv(One, q))
    ELSE alpha_of(q, t_of(d, prev_idx, avg, j))

\* extended_unnormalized with the return bias multiplying by p
extended_unnormalized_times_p(d, nz, p, q, cur_idx, prev_idx, avg) ==
    IF prev_idx = None THEN d[cur_idx]
    ELSE LET io == inout_ind(d, nz, cur_idx, prev_idx, avg)
             out == [j \in Nodes |->
                        IF io[j] THEN FMul(d[cur_idx][j],
                                           alpha_final(d, q, cur_idx, prev_idx, avg, j))
                                 ELSE d[cur_idx][j]]
         IN  [out EXCEPT ![prev_idx] = FMul(out[prev_idx], p)]

extended_unnormalized(d, nz, p, q, cur_idx, prev_idx, avg) ==
    IF prev_idx = None THEN d[cur_idx]
    ELSE LET io == inout_ind(d, nz, cur_idx, prev_idx, avg)
             out == [j \in Nodes |->
                        IF io[j] THEN FMul(d[cur_idx][j],
                                           alpha_final(d, q, cur_idx, prev_idx, avg, j))
                                 ELSE d[cur_idx][j]]
         IN  [out EXCEPT ![prev_idx] = FDiv(out[prev_idx], p)]

get_extended_normalized_probs(d, nz, p, q, cur_idx, prev_idx, avg) ==
    Normalize(MaskSelect(extended_unnormalized(d, nz, p, q, cur_idx, prev_idx, avg),
                         nz[cur_idx]))

(***************************************************************************)
(* Graphs handed over by the loader: at most MaxEdges undirected edges     *)
(* (self-loops included) of weight 1, at most one of them of weight        *)
(* MaxWeight instead, the                                                  *)
(* mask true exactly where the weight is not zero; and, on a graph of less *)
(* than MaxEdges unit edges, at most one cell where mask and weight were   *)
(* set independently (a present edge of weight 0, an absent edge with a    *)
(* stale weight, a one-directional edge).  The edge sets are closed under  *)
(* renaming of the nodes, so that cell is, up to renaming, a diagonal cell *)
(* (0,0) or an off-diagonal cell (0,1).                                    *)
(***************************************************************************)
MaxEdges == 3

Pairs == {e \in Nodes \X Nodes : e[1] <= e[2]}

PairOf(i, j) == IF i <= j THEN <<i, j>> ELSE <<j, i>>

EdgeSets(k) == {E \in SUBSET Pairs : Cardinality(E) <= k}

\* every edge of E has weight 1, except that the edges of H have weight h
UndirectedData(E, H, h) ==
    [i \in Nodes |-> [j \in Nodes |->
        IF PairOf(i, j) \in H THEN Num(h)
        ELSE IF PairOf(i, j) \in E THEN One ELSE Zero]]

MaskOf(d) == [i \in Nodes |-> [j \in Nodes |-> d[i][j] # Zero]]

CellKinds == {[m |-> TRUE, w |-> Zero], [m |-> FALSE, w |-> Num(MaxWeight)],
              [m |-> TRUE, w |-> One]}

Idle == [op |-> "none", cur |-> None, prev |-> None, p |-> One, q |-> One,
         ret |-> <<>>, flag |-> FALSE, raised |-> FALSE]

Init ==
    /\ \/ \E E \in EdgeSets(MaxEdges) :
          \E H \in {{}} \cup {{e} : e \in E} :
            /\ data = UndirectedData(E, H, MaxWeight)
            /\ nonzero = MaskOf(data)
       \/ \E E \in EdgeSets(MaxEdges - 1), j \in {0, 1}, c \in CellKinds :
            LET d0 == UndirectedData(E, {}, 1) IN
            /\ data = [d0 EXCEPT ![0][j] = c.w]
            /\ nonzero = [MaskOf(d0) EXCEPT ![0][j] = c.m]
    /\ average_weight_ary = get_average_weights(data, nonzero)
    /\ call = Idle

(***************************************************************************)
(* Calls.  call holds the call a worker has made and its outcome, until    *)
(* the worker has consumed the outcome; every call runs to completion on   *)
(* the shared graph.  No statement of the source raises, so raised stays   *)
(* FALSE.                                                                  *)
(***************************************************************************)
GetAverageWeights ==
    /\ call.op = "none"
    /\ call' = [Idle EXCEPT !.op = "get_average_weights",
                    !.ret = [k \in 1 .. N |-> get_average_weights(data, nonzero)[k - 1]]]
    /\ UNCHANGED <<data, nonzero, average_weight_ary>>

HasNbrs ==
    /\ call.op = "none"
    /\ \E idx \in Nodes :
        /\ call' = [Idle EXCEPT !.op = "has_nbrs", !.cur = idx,
                        !.flag = has_nbrs(nonzero, idx)]
        /\ UNCHANGED <<data, nonzero, average_weight_ary>>

GetNormalizedProbs ==
    /\ call.op = "none"
    /\ \E cur_idx \in Nodes, prev_idx \in Nodes \cup {None}, p \in PQ, q \in PQ :
        /\ call' = [op |-> "get_normalized_probs", cur |-> cur_idx, prev |-> prev_idx,
                    p |-> p, q |-> q,
                    ret |-> get_normalized_probs(data, nonzero, p, q, cur_idx, prev_idx,
                                                 average_weight_ary),
                    flag |-> FALSE, raised |-> FALSE]
        /\ data' = [data EXCEPT ![cur_idx] =
                        RowStoredAfter(data[cur_idx],
                            classic_unnormalized(data, nonzero, p, q, cur_idx, prev_idx))]
        /\ UNCHANGED <<nonzero, average_weight_ary>>

GetExtendedNormalizedProbs ==
    /\ call.op = "none"
    /\ \E cur_idx \in Nodes, prev_idx \in Nodes \cup {None}, p \in PQ, q \in PQ :
        /\ call' = [op |-> "get_extended_normalized_probs", cur |-> cur_idx,
                    prev |-> prev_idx, p |-> p, q |-> q,
                    ret |-> get_extended_normalized_probs(data, nonzero, p, q, cur_idx,
                                                          prev_idx, average_weight_ary),
                    flag |-> FALSE, raised |-> FALSE]
        /\ data' = [data EXCEPT ![cur_idx] =
                        RowStoredAfter(data[cur_idx],
                            extended_unnormalized(data, nonzero, p, q, cur_idx, prev_idx,
                                                  average_weight_ary))]
        /\ UNCHANGED <<nonzero, average_weight_ary>>

\* the worker takes the outcome and is ready for its next call
Consume ==
    /\ call.op # "none"
    /\ call' = Idle
    /\ UNCHANGED <<data, nonzero, average_weight_ary>>

Next ==
    \/ GetAverageWeights
    \/ HasNbrs
    \/ GetNormalizedProbs
    \/ GetExtendedNormalizedProbs
    \/ Consume

Spec == Init /\ [][Next]_vars

(***************************************************************************)
(* Vocabulary of the properties.                                           *)
(***************************************************************************)
Classic == "get_normalized_probs"
Extended == "get_extended_normalized_probs"

IsPolicyCall == call.op \in {Classic, Extended}

\* what policy op returns on graph (d, nz) with average-weight vector avg
PolicyResult(op, d, nz, p, q, cur_idx, prev_idx, avg) ==
    IF op = Classic
    THEN get_normalized_probs(d, nz, p, q, cur_idx, prev_idx, avg)
    ELSE get_extended_normalized_probs(d, nz, p, q, cur_idx, prev_idx, avg)

\* the working row of policy op before the restriction to the neighbors
PolicyUnnormalized(op, d, nz, p, q, cur_idx, prev_idx, avg) ==
    IF op = Classic
    THEN classic_unnormalized(d, nz, p, q, cur_idx, prev_idx)
    ELSE extended_unnormalized(d, nz, p, q, cur_idx, prev_idx, avg)

Nbrs(i) == {j \in Nodes : nonzero[i][j]}

\* the column of the k-th true cell of row i of the mask, k = 1, 2, ...
KthNbr(i, k) ==
    CHOOSE j \in Nbrs(i) : Cardinality({c \in Nbrs(i) : c < j}) = k - 1

\* the slot of neighbor j of i in a vector aligned with the mask row of i
SlotOf(i, j) == Cardinality({c \in Nbrs(i) : c <= j})

\* the sum of f over the columns in S
RECURSIVE SumOverUpTo(_, _, _)
SumOverUpTo(f, S, j) ==
    IF j < 0 THEN Zero
    ELSE IF j \in S THEN FAdd(SumOverUpTo(f, S, j - 1), f[j])
    ELSE SumOverUpTo(f, S, j - 1)

SumOver(f, S) == SumOverUpTo(f, S, N - 1)

IsPositive(a) == FLt(Zero, a)

\* the unit-weight triangle 0-1, 0-2, 1-2
Triangle == [i \in Nodes |-> [j \in Nodes |-> IF i # j /\ i < 3 /\ j < 3 THEN One ELSE Zero]]

(***************************************************************************)
(* C1: for both policies, every current, every previous (None or a node)   *)
(* and every p, q, the returned vector has as many entries as the mask row *)
(* of current has true cells, and entry k is the biased weight of the k-th *)
(* true column (ascending) divided by the total over the true columns.     *)
(***************************************************************************)
C1_Expected(u, total, n) == [k \in 1 .. n |-> FDiv(u[KthNbr(call.cur, k)], total)]

C1_ShapeAndAlignment ==
    IsPolicyCall =>
        LET u == PolicyUnnormalized(call.op, data, nonzero, call.p, call.q, call.cur,
                                    call.prev, average_weight_ary)
        IN  /\ Len(call.ret) = Cardinality(Nbrs(call.cur))
            /\ call.ret = C1_Expected(u, SumOver(u, Nbrs(call.cur)),
                                      Cardinality(Nbrs(call.cur)))

\* a second-order call whose neighbors are not the leading columns and get
\* different probabilities
C1_Witness ==
    /\ IsPolicyCall
    /\ call.prev # None
    /\ Len(call.ret) = 2
    /\ ~nonzero[call.cur][0]
    /\ IsFinite(call.ret[1])
    /\ call.ret[1] # call.ret[2]

(***************************************************************************)
(* C2: for both policies, with previous = None and all neighbor weights of *)
(* current strictly positive (at least one neighbor), the entry of each    *)
(* neighbor j is weights[current][j] over the sum of the masked weights of *)
(* current; the entries sum to 1, are strictly positive, and do not depend *)
(* on p and q.                                                             *)
(***************************************************************************)
C2_FirstOrder ==
    (/\ IsPolicyCall
     /\ call.prev = None
     /\ Nbrs(call.cur) # {}
     /\ \A j \in Nbrs(call.cur) : IsPositive(data[call.cur][j]))
    =>  /\ \A j \in Nbrs(call.cur) :
              call.ret[SlotOf(call.cur, j)] =
                  FDiv(data[call.cur][j], SumOver(data[call.cur], Nbrs(call.cur)))
        /\ SeqSum(call.ret) = One
        /\ \A k \in 1 .. Len(call.ret) : IsPositive(call.ret[k])
        /\ \A p2 \in PQ, q2 \in PQ :
              PolicyResult(call.op, data, nonzero, p2, q2, call.cur, None,
                           average_weight_ary) = call.ret

\* a first-order call on a node with two neighbors of different weights and a
\* stale weight outside the mask
C2_Witness ==
    /\ IsPolicyCall
    /\ call.prev = None
    /\ call.p # One
    /\ call.q # One
    /\ Len(call.ret) >= 1
    /\ \A j \in Nbrs(call.cur) : IsPositive(data[call.cur][j])
    /\ \E j \in Nodes \ Nbrs(call.cur) : IsPositive(data[call.cur][j])

\* a first-order call on a node with neighbors of different weights
C2_WitnessWeighted ==
    /\ IsPolicyCall
    /\ call.prev = None
    /\ Len(call.ret) >= 2
    /\ IsFinite(call.ret[1])
    /\ call.ret[1] # call.ret[2]

(***************************************************************************)
(* C3: with p = 1 and q = 1, for every current with a neighbor and every   *)
(* previous node, both policies return the first-order distribution (the   *)
(* vector returned with previous = None), hence the same vector as each    *)
(* other; on the unit triangle, current = 1, previous = 0, it is 1/2 for   *)
(* node 0 and 1/2 for node 2.                                              *)
(***************************************************************************)
C3_NeutralBias ==
    (/\ IsPolicyCall
     /\ call.prev # None
     /\ call.p = One
     /\ call.q = One
     /\ Nbrs(call.cur) # {})
    =>  /\ call.ret = PolicyResult(call.op, data, nonzero, One, One, call.cur, None,
                                   average_weight_ary)
        /\ call.ret = get_normalized_probs(data, nonzero, One, One, call.cur, call.prev,
                                           average_weight_ary)
        /\ call.ret = get_extended_normalized_probs(data, nonzero, One, One, call.cur,
                                                    call.prev, average_weight_ary)
        /\ (data = Triangle /\ nonzero = MaskOf(Triangle) /\ call.cur = 1 /\ call.prev = 0)
               => call.ret = <<Half, Half>>

\* the extended policy on a second-order step with p = q = 1 where some neighbor
\* of current is an in-out candidate whose edge is not suppressed as noisy
C3_Witness ==
    /\ call.op = Extended
    /\ call.prev # None
    /\ call.p = One
    /\ call.q = One
    /\ \E j \in Nodes :
          /\ inout_ind(data, nonzero, call.cur, call.prev, average_weight_ary)[j]
          /\ ~FLt(data[call.cur][j], average_weight_ary[call.cur])
          /\ IsPositive(data[call.prev][j])
          /\ IsPositive(data[call.cur][j])

\* the scenario of the unit triangle
C3_WitnessTriangle ==
    /\ IsPolicyCall
    /\ data = Triangle
    /\ call.cur = 1
    /\ call.prev = 0
    /\ call.p = One
    /\ call.q = One
    /\ call.ret = <<Half, Half>>

(***************************************************************************)
(* Probability mass and second-order vocabulary.                           *)
(***************************************************************************)
\* neighbors of cur that are not neighbors of prev, prev itself excluded
NonCommon(cur_idx, prev_idx) ==
    {j \in Nbrs(cur_idx) : j # prev_idx /\ ~nonzero[prev_idx][j]}

\* the summed probability that vector v (aligned with the mask row of i) gives
\* to the neighbors in S
MassOf(v, i, S) == SumOver([j \in Nodes |-> IF j \in S THEN v[SlotOf(i, j)] ELSE Zero], S)

\* the masked weights of current have a positive total
HasPositiveTotal(i) == IsPositive(SumOver(data[i], Nbrs(i)))

SecondOrder(op) == call.op = op /\ call.prev # None

(***************************************************************************)
(* C4 as stated: for the classic policy, with the graph, current, previous *)
(* and p fixed, the summed probability of the non-common neighbors of      *)
(* current under q2 is at least the one under q1 whenever q1 < q2.         *)
(* Stated for the calls whose distribution is defined (positive total      *)
(* weight).                                                                *)
(***************************************************************************)
C4_AsStated ==
    (SecondOrder(Classic) /\ HasPositiveTotal(call.cur)) =>
        \A q2 \in PQ :
            FLt(call.q, q2) =>
                FLe(MassOf(call.ret, call.cur, NonCommon(call.cur, call.prev)),
                    MassOf(get_normalized_probs(data, nonzero, call.p, q2, call.cur,
                                                call.prev, average_weight_ary),
                           call.cur, NonCommon(call.cur, call.prev)))

(***************************************************************************)
(* C4 amended: for the classic policy, with the graph, current, previous   *)
(* and p fixed and the masked weights of current having a positive total,  *)
(* increasing q does not increase the summed probability of the non-common *)
(* neighbors of current: for q1 < q2 the mass under q2 is at most the mass *)
(* under q1 (and strictly less when both the non-common neighbors and the  *)
(* other neighbors carry positive weight).                                 *)
(***************************************************************************)
C4_MassNonIncreasingInQ ==
    (SecondOrder(Classic) /\ HasPositiveTotal(call.cur)) =>
        LET nc == NonCommon(call.cur, call.prev)
            rest == Nbrs(call.cur) \ nc
        IN  \A q2 \in PQ :
              FLt(call.q, q2) =>
                LET m1 == MassOf(call.ret, call.cur, nc)
                    m2 == MassOf(get_normalized_probs(data, nonzero, call.p, q2,
                                    call.cur, call.prev, average_weight_ary),
                                 call.cur, nc)
                IN  /\ FLe(m2, m1)
                    /\ (IsPositive(SumOver(data[call.cur], nc))
                          /\ IsPositive(SumOver(data[call.cur], rest))) => FLt(m2, m1)

\* a classic second-order call with q below the largest q, where current has a
\* non-common neighbor, the previous node and a common neighbor, all of
\* positive weight
C4_Witness ==
    /\ SecondOrder(Classic)
    /\ call.q = Half
    /\ nonzero[call.cur][call.prev]
    /\ \A j \in Nbrs(call.cur) : IsPositive(data[call.cur][j])
    /\ NonCommon(call.cur, call.prev) # {}
    /\ Nbrs(call.cur) \ (NonCommon(call.cur, call.prev) \cup {call.prev}) # {}

(***************************************************************************)
(* C5: for both policies, with the graph, q, current and previous fixed,   *)
(* previous a neighbor of current of positive weight and current having    *)
(* another neighbor of positive weight, a smaller p gives previous a       *)
(* strictly larger probability; on the unit triangle with q = 1,           *)
(* current = 1, previous = 0, p = 1/2, the probability of node 0 exceeds   *)
(* 1/2.                                                                    *)
(***************************************************************************)
C5_ReturnBias ==
    (/\ IsPolicyCall
     /\ call.prev # None
     /\ nonzero[call.cur][call.prev]
     /\ IsPositive(data[call.cur][call.prev])
     /\ \E j \in Nbrs(call.cur) \ {call.prev} : IsPositive(data[call.cur][j]))
    =>  /\ \A p2 \in PQ :
              FLt(call.p, p2) =>
                  FLt(PolicyResult(call.op, data, nonzero, p2, call.q, call.cur,
                                   call.prev, average_weight_ary)
                          [SlotOf(call.cur, call.prev)],
                      call.ret[SlotOf(call.cur, call.prev)])
        /\ (/\ data = Triangle
            /\ nonzero = MaskOf(Triangle)
            /\ call.cur = 1
            /\ call.prev = 0
            /\ call.q = One
            /\ call.p = Half) => FLt(Half, call.ret[1])

\* the extended policy with p = 1/2 on a step whose previous node has positive
\* weight and where another neighbor is an in-out candidate of positive weight
C5_Witness ==
    /\ SecondOrder(Extended)
    /\ call.p = Half
    /\ call.q # One
    /\ nonzero[call.cur][call.prev]
    /\ IsPositive(data[call.cur][call.prev])
    /\ \E j \in Nodes :
          /\ inout_ind(data, nonzero, call.cur, call.prev, average_weight_ary)[j]
          /\ IsPositive(data[call.cur][j])

\* the scenario of the unit triangle with p = 1/2
C5_WitnessTriangle ==
    /\ IsPolicyCall
    /\ data = Triangle
    /\ call.cur = 1
    /\ call.prev = 0
    /\ call.q = One
    /\ call.p = Half
    /\ call.ret = <<Rat(2, 3), Rat(1, 3)>>

(***************************************************************************)
(* C6 as stated: for both policies, whenever the unnormalized weights over *)
(* the masked neighbors of current sum to zero (in particular when current *)
(* has no neighbor), the call ends in an explicit failure and returns no   *)
(* vector.                                                                 *)
(***************************************************************************)
C6_ExplicitFailure ==
    (/\ IsPolicyCall
     /\ SumOver(PolicyUnnormalized(call.op, data, nonzero, call.p, call.q, call.cur,
                                   call.prev, average_weight_ary),
                Nbrs(call.cur)) = Zero)
    => call.raised

\* as C6, for an isolated current alone
C6_IsolatedFails ==
    (IsPolicyCall /\ Nbrs(call.cur) = {}) => call.raised

\* the part of C6 about division by zero: no returned entry is NaN
C6_NoSilentNaN ==
    IsPolicyCall => \A k \in 1 .. Len(call.ret) : ~IsNaN(call.ret[k])

(***************************************************************************)
(* C7 as stated: average weights and both policies' outputs depend only on *)
(* the weights at masked-true positions: get_average_weights returns, for  *)
(* each row, the sum of its masked weights over the count of its masked    *)
(* cells, and each policy returns what it returns on the graph with the    *)
(* same mask and masked weights and zeros elsewhere.  (The average is      *)
(* compared on the rows that have a neighbor, where it is defined.)        *)
(***************************************************************************)
\* the graph with the same mask, the same masked weights and zeros elsewhere
ZeroUnmasked(d, nz) ==
    [i \in Nodes |-> [j \in Nodes |-> IF nz[i][j] THEN d[i][j] ELSE Zero]]

MaskedAverage(i) == FDiv(SumOver(data[i], Nbrs(i)), Num(Cardinality(Nbrs(i))))

C7_MaskedOnly ==
    /\ call.op = "get_average_weights" =>
          \A i \in Nodes : Nbrs(i) # {} => call.ret[i + 1] = MaskedAverage(i)
    /\ IsPolicyCall =>
          call.ret = PolicyResult(call.op, ZeroUnmasked(data, nonzero), nonzero,
                                  call.p, call.q, call.cur, call.prev,
                                  get_average_weights(ZeroUnmasked(data, nonzero),
                                                      nonzero))

\* the part of C7 about the classic policy (it holds)
C7_ClassicMaskedOnly ==
    call.op = Classic =>
        call.ret = get_normalized_probs(ZeroUnmasked(data, nonzero), nonzero, call.p,
                       call.q, call.cur, call.prev,
                       get_average_weights(ZeroUnmasked(data, nonzero), nonzero))

\* the part of C7 about the extended policy, the average-weight vector kept
C7_ExtendedMaskedOnly ==
    call.op = Extended =>
        call.ret = get_extended_normalized_probs(ZeroUnmasked(data, nonzero), nonzero,
                       call.p, call.q, call.cur, call.prev, average_weight_ary)

C9_Weight(j) ==
    IF j = call.prev THEN FDiv(data[call.cur][j], call.p)
    ELSE IF ~nonzero[call.prev][j] THEN FDiv(data[call.cur][j], call.q)
    ELSE data[call.cur][j]

C9_ClassicBias ==
    (SecondOrder(Classic) /\ nonzero[call.cur][call.prev]) =>
        LET w == [j \in Nodes |-> C9_Weight(j)]
            total == SumOver(w, Nbrs(call.cur))
        IN  \A j \in Nbrs(call.cur) :
                call.ret[SlotOf(call.cur, j)] = FDiv(w[j], total)

\* a classic step with p # 1 and q # 1, p # q, where previous has no self-loop,
\* and current has a common and a non-common neighbor, all of positive weight
C9_Witness ==
    /\ SecondOrder(Classic)
    /\ nonzero[call.cur][call.prev]
    /\ ~nonzero[call.prev][call.prev]
    /\ call.p # One
    /\ call.q # One
    /\ call.p # call.q
    /\ \A j \in Nbrs(call.cur) : IsPositive(data[call.cur][j])
    /\ NonCommon(call.cur, call.prev) # {}
    /\ Nbrs(call.cur) \ (NonCommon(call.cur, call.prev) \cup {call.prev}) # {}

(***************************************************************************)
(* C10 as stated: for the extended policy on a second-order step, neighbor *)
(* k # previous of current is an in-out candidate exactly when             *)
(* weights[previous][k] < average_weight[previous]; a candidate's weight   *)
(* is multiplied by alpha_k = 1/q + (1 - 1/q) * t_k with                   *)
(* t_k = weights[previous][k] / average_weight[previous] in [0,1), or by   *)
(* min(1, 1/q) when weights[current][k] < average_weight[current];         *)
(* the other neighbors keep their weight, previous's is divided by p.      *)
(***************************************************************************)
C10_Alpha(k, thr) ==
    IF FLt(data[call.cur][k], average_weight_ary[call.cur])
    THEN FMin(One, FDiv(One, call.q))
    ELSE FAdd(FDiv(One, call.q),
              FMul(FSub(One, FDiv(One, call.q)), FDiv(data[call.prev][k], thr)))

\* the weight of neighbor k when the threshold of k is thr
C10_Weight(k, thr) ==
    IF k = call.prev THEN FDiv(data[call.cur][k], call.p)
    ELSE IF FLt(data[call.prev][k], thr)
         THEN FMul(data[call.cur][k], C10_Alpha(k, thr))
         ELSE data[call.cur][k]

C10_AsStated ==
    SecondOrder(Extended) =>
        LET w == [k \in Nodes |-> C10_Weight(k, average_weight_ary[call.prev])]
            total == SumOver(w, Nbrs(call.cur))
        IN  \A k \in Nbrs(call.cur) :
                call.ret[SlotOf(call.cur, k)] = FDiv(w[k], total)

(***************************************************************************)
(* C10 amended: as stated, except that the threshold of neighbor k is the  *)
(* average weight of k itself: k # previous is an in-out candidate exactly *)
(* when weights[previous][k] < average_weight[k], and                      *)
(* t_k = weights[previous][k] / average_weight[k], which lies in [0,1).    *)
(***************************************************************************)
C10_ExtendedBias ==
    SecondOrder(Extended) =>
        LET w == [k \in Nodes |-> C10_Weight(k, average_weight_ary[k])]
            total == SumOver(w, Nbrs(call.cur))
        IN  /\ \A k \in Nbrs(call.cur) :
                  call.ret[SlotOf(call.cur, k)] = FDiv(w[k], total)
            /\ \A k \in Nbrs(call.cur) \ {call.prev} :
                  FLt(data[call.prev][k], average_weight_ary[k]) =>
                      LET t == FDiv(data[call.prev][k], average_weight_ary[k])
                      IN  FLe(Zero, t) /\ FLt(t, One)

\* an extended step with q # 1 where a candidate k has 0 < t_k and is not
\* suppressed, and where the average weights of k and of previous put
\* weights[previous][k] on different sides
C10_Witness ==
    /\ SecondOrder(Extended)
    /\ call.q # One
    /\ call.p # One
    /\ nonzero[call.cur][call.prev]
    /\ HasPositiveTotal(call.cur)
    /\ \E k \in Nbrs(call.cur) \ {call.prev} :
          /\ IsPositive(data[call.cur][k])
          /\ IsPositive(data[call.prev][k])
          /\ FLt(data[call.prev][k], average_weight_ary[k])
          /\ ~FLt(data[call.prev][k], average_weight_ary[call.prev])
          /\ ~FLt(data[call.cur][k], average_weight_ary[call.cur])

\* an extended step with q < 1 where a candidate's edge is suppressed as noisy
C10_WitnessSuppressed ==
    /\ SecondOrder(Extended)
    /\ call.q = Half
    /\ \E k \in Nbrs(call.cur) \ {call.prev} :
          /\ IsPositive(data[call.cur][k])
          /\ FLt(data[call.prev][k], average_weight_ary[k])
          /\ FLt(data[call.cur][k], average_weight_ary[call.cur])

=============================================================================
